---- MODULE Spec2Model ----
(***************************************************************************)
(* Model of app.js, the THP-aware RSS demonstrator (first program of the   *)
(* file, lines 1-170): environment configuration, the cgroup inspector,    *)
(* the metrics reader, the allocation planner, the wave runner, the driver *)
(* loop and the two signal handlers.                                       *)
(*                                                                         *)
(* JavaScript numbers are modelled as records [k, v]: k = "num" with v the *)
(* value in hundredths (fixed point, exact for the two-decimal inputs the  *)
(* model draws), k = "nan" for NaN and k = "inf" for +Infinity.  Strings   *)
(* are sequences of one-character strings, so that Number(), parseInt()    *)
(* and trim() are computed, not assumed.  A value that may be undefined or *)
(* null is a record [set, s].                                              *)
(***************************************************************************)
EXTENDS Integers, Sequences, FiniteSets, TLC

VARIABLES
    env,        \* process.env: the five knobs, each unset or a string
    cgfs,       \* cgroup control files: cg2Max, cg2Cur, cg1Max, cg1Cur
    procfs,     \* /proc files read by readMem, and the runtime's own rss
    gcExposed,  \* whether node was started with --expose-gc (global.gc)
    pc,         \* position of the main async function
    w,          \* the driver loop's wave counter
    objects,    \* wave(): the local `objects` after planning
    arr,        \* wave(): the buffer array, a sequence of "empty"/"buf"/"null"
    i,          \* wave(): index of the allocation loop
    out,        \* lines printed during the current wave (tags of printUsage etc.)
    pendingSig, \* signals delivered by the OS, handler not yet run
    timers,     \* exit timers scheduled by the signal handlers, FIFO
    sigLog,     \* every signal received so far, in order of arrival
    exitCode,   \* status the process ended with, -1 while it runs
    planned,    \* result of the last planObjects call
    mem         \* result of the last readMem call

vars == <<env, cgfs, procfs, gcExposed, pc, w, objects, arr, i, out,
          pendingSig, timers, sigLog, exitCode, planned, mem>>

-----------------------------------------------------------------------------
(* JavaScript numbers *)

Num(n) == [k |-> "num", v |-> n * 100]
Hun(h) == [k |-> "num", v |-> h]
NaN == [k |-> "nan", v |-> 0]
Infinity == [k |-> "inf", v |-> 0]

IsNum(a) == a.k = "num"
IsNaN(a) == a.k = "nan"
\* Number.isFinite
IsFinite(a) == a.k = "num"
\* a is a mathematical integer
IsInteger(a) == a.k = "num" /\ a.v % 100 = 0

\* a < b as JavaScript evaluates it (false when either side is NaN)
Lt(a, b) ==
    CASE IsNaN(a) \/ IsNaN(b) -> FALSE
      [] a.k = "inf" -> FALSE
      [] b.k = "inf" -> TRUE
      [] OTHER -> a.v < b.v
\* a <= b as JavaScript evaluates it
Le(a, b) ==
    CASE IsNaN(a) \/ IsNaN(b) -> FALSE
      [] b.k = "inf" -> TRUE
      [] a.k = "inf" -> FALSE
      [] OTHER -> a.v <= b.v

MathMax(a, b) ==
    CASE IsNaN(a) \/ IsNaN(b) -> NaN
      [] a.k = "inf" \/ b.k = "inf" -> Infinity
      [] OTHER -> IF a.v >= b.v THEN a ELSE b
MathMin(a, b) ==
    CASE IsNaN(a) \/ IsNaN(b) -> NaN
      [] a.k = "inf" -> b
      [] b.k = "inf" -> a
      [] OTHER -> IF a.v <= b.v THEN a ELSE b
MathFloor(a) == IF IsNum(a) THEN Hun((a.v \div 100) * 100) ELSE a

\* a * b in hundredths: exact when either operand is an integer, which is
\* the case at both uses (SIZE_MB_RAW * MB and TARGET_UTIL * limit)
Mul(a, b) ==
    CASE IsNaN(a) \/ IsNaN(b) -> NaN
      [] a.k = "inf" \/ b.k = "inf" -> Infinity
      [] b.v % 100 = 0 -> Hun(a.v * (b.v \div 100))
      [] a.v % 100 = 0 -> Hun((a.v \div 100) * b.v)
      [] OTHER -> Hun((a.v * b.v) \div 100)
Add(a, b) ==
    CASE IsNaN(a) \/ IsNaN(b) -> NaN
      [] a.k = "inf" \/ b.k = "inf" -> Infinity
      [] OTHER -> Hun(a.v + b.v)
Sub(a, b) ==
    CASE IsNaN(a) \/ IsNaN(b) -> NaN
      [] a.k = "inf" -> Infinity
      [] OTHER -> Hun(a.v - b.v)
\* Math.floor(a / b) for a >= 0 and b > 0 (the only use, in planObjects)
FloorDiv(a, b) ==
    CASE IsNaN(a) \/ IsNaN(b) -> NaN
      [] a.k = "inf" -> Infinity
      [] b.k = "inf" -> Num(0)
      [] OTHER -> Num(a.v \div b.v)

-----------------------------------------------------------------------------
(* Strings and their conversion to numbers *)

NULL == [set |-> FALSE, s |-> <<>>]
Str(s) == [set |-> TRUE, s |-> s]
\* truthiness of a string-or-null value: null, undefined and '' are falsy
Truthy(x) == x.set /\ x.s # <<>>

Digits == {"0", "1", "2", "3", "4", "5", "6", "7", "8", "9"}
DigitVal(c) ==
    CASE c = "0" -> 0 [] c = "1" -> 1 [] c = "2" -> 2 [] c = "3" -> 3
      [] c = "4" -> 4 [] c = "5" -> 5 [] c = "6" -> 6 [] c = "7" -> 7
      [] c = "8" -> 8 [] c = "9" -> 9
AllDigits(s) == \A j \in 1..Len(s) : s[j] \in Digits

RECURSIVE DigitsVal(_)
DigitsVal(s) ==
    IF s = <<>> THEN 0
    ELSE DigitsVal(SubSeq(s, 1, Len(s) - 1)) * 10 + DigitVal(s[Len(s)])

WhiteSpace == {" ", "\n"}
RECURSIVE TrimLeft(_)
TrimLeft(s) ==
    IF s # <<>> /\ s[1] \in WhiteSpace THEN TrimLeft(Tail(s)) ELSE s
RECURSIVE TrimRight(_)
TrimRight(s) ==
    IF s # <<>> /\ s[Len(s)] \in WhiteSpace
    THEN TrimRight(SubSeq(s, 1, Len(s) - 1)) ELSE s
\* String.prototype.trim
Trim(s) == TrimRight(TrimLeft(s))

\* the fraction digits f as hundredths (digits past the second are below the
\* model's resolution; no input drawn has any)
FracVal(f) ==
    CASE Len(f) = 0 -> 0
      [] Len(f) = 1 -> DigitVal(f[1]) * 10
      [] OTHER -> DigitVal(f[1]) * 10 + DigitVal(f[2])

\* the value of a decimal literal split at its dot into integer digits ip
\* and fraction digits fp; NaN unless both are digits and one is non-empty
DecimalValue(ip, fp, negative) ==
    IF AllDigits(ip) /\ AllDigits(fp) /\ Len(ip) + Len(fp) > 0
    THEN Hun((IF negative THEN -1 ELSE 1) * (DigitsVal(ip) * 100 + FracVal(fp)))
    ELSE NaN
\* the position of the first "." of body, Len(body) + 1 when there is none
DotIndex(body) ==
    LET dots == {j \in 1..Len(body) : body[j] = "."}
    IN  IF dots = {} THEN Len(body) + 1
        ELSE CHOOSE j \in dots : \A l \in dots : j <= l
UnsignedLiteral(body, dot, negative) ==
    DecimalValue(SubSeq(body, 1, dot - 1), SubSeq(body, dot + 1, Len(body)), negative)
SignedLiteral(body, negative) == UnsignedLiteral(body, DotIndex(body), negative)
TrimmedToNumber(t) ==
    IF t = <<>> THEN Num(0)
    ELSE SignedLiteral(IF t[1] \in {"-", "+"} THEN Tail(t) ELSE t, t[1] = "-")
\* Number(s) of a string: whitespace is trimmed, '' is 0, a signed decimal
\* literal is its value, anything else is NaN
StringToNumber(s) == TrimmedToNumber(Trim(s))

\* parseInt(s, 10): the longest prefix of digits, NaN when there is none
RECURSIVE DigitPrefix(_)
DigitPrefix(s) ==
    IF s # <<>> /\ s[1] \in Digits THEN <<s[1]>> \o DigitPrefix(Tail(s)) ELSE <<>>
PrefixValue(p) == IF p = <<>> THEN NaN ELSE Num(DigitsVal(p))
ParseInt(s) == PrefixValue(DigitPrefix(TrimLeft(s)))

\* toInt(s, d): Number(s) when finite, else the default d
FiniteOr(n, d) == IF IsFinite(n) THEN n ELSE d
toInt(s, d) == FiniteOr(StringToNumber(s), d)

-----------------------------------------------------------------------------
(* Files *)

\* rd(p): the text of file p, or null when reading it throws
rd(f) == IF f.readable THEN Str(f.text) ELSE NULL

File(text) == [readable |-> TRUE, text |-> text]
NoFile == [readable |-> FALSE, text |-> <<>>]

-----------------------------------------------------------------------------
(* Config (env) *)

MB == 1048576

STICKY_PRESET ==
    (IF Truthy(env.STICKY_PRESET) THEN env.STICKY_PRESET.s ELSE <<"0">>) = <<"1">>
\* x ?? d under Number(): the default only replaces an unset variable
OBJ ==
    IF env.ALLOC_OBJECTS.set THEN StringToNumber(env.ALLOC_OBJECTS.s)
    ELSE IF STICKY_PRESET THEN Num(120) ELSE Num(8)
SIZE_MB_RAW ==
    IF env.ALLOC_SIZE_MB.set THEN StringToNumber(env.ALLOC_SIZE_MB.s)
    ELSE IF STICKY_PRESET THEN Hun(150) ELSE Num(16)
HOLD ==
    IF env.HOLD_MS.set THEN StringToNumber(env.HOLD_MS.s) ELSE Num(1500)
\* x || 0.80 under Number(): the default also replaces the empty string
TARGET_UTIL ==
    MathMin(MathMax(IF Truthy(env.TARGET_UTIL)
                    THEN StringToNumber(env.TARGET_UTIL.s) ELSE Hun(80),
                    Hun(10)),
            Hun(95))
SIZE_BYTES == MathMax(Num(1), MathFloor(Mul(SIZE_MB_RAW, Num(MB))))

-----------------------------------------------------------------------------
(* THP / cgroup *)

cgLimitBytes ==
    LET v2 == rd(cgfs.cg2Max)
        v1 == rd(cgfs.cg1Max)
    IN  IF Truthy(v2)
        THEN IF Trim(v2.s) = <<"m", "a", "x">> THEN Infinity
             ELSE toInt(Trim(v2.s), Infinity)
        ELSE IF Truthy(v1) THEN toInt(Trim(v1.s), Infinity)
        ELSE Infinity

cgCurrentBytes ==
    LET v2 == rd(cgfs.cg2Cur)
        v1 == rd(cgfs.cg1Cur)
    IN  IF Truthy(v2) THEN toInt(Trim(v2.s), Num(0))
        ELSE IF Truthy(v1) THEN toInt(Trim(v1.s), Num(0))
        ELSE Num(0)

-----------------------------------------------------------------------------
(* Allocation planner *)

\* headroom that forgets the current usage
HeadroomIgnoringUsage(limit, cur) == MathMax(Num(0), Mul(TARGET_UTIL, limit))
\* headroom = Math.max(0, TARGET_UTIL * limit - cur)
Headroom(limit, cur) == MathMax(Num(0), Sub(Mul(TARGET_UTIL, limit), cur))
\* fit without the floor of one buffer
FitWithoutFloorOfOne(headroom, sizeBytes) == FloorDiv(headroom, sizeBytes)
\* fit = Math.max(1, Math.floor(headroom / sizeBytes))
Fit(headroom, sizeBytes) == MathMax(Num(1), FloorDiv(headroom, sizeBytes))
\* a planner that returns the fit without capping it by the request
PlanForUncapped(objs, sizeBytes, limit) ==
    IF ~IsFinite(limit) \/ Le(limit, Num(0)) THEN objs
    ELSE Fit(Headroom(limit, cgCurrentBytes), sizeBytes)
\* the body of planObjects once the limit is read
PlanFor(objs, sizeBytes, limit) ==
    IF ~IsFinite(limit) \/ Le(limit, Num(0)) THEN objs
    ELSE MathMin(objs, Fit(Headroom(limit, cgCurrentBytes), sizeBytes))
planObjects(objs, sizeBytes) == PlanFor(objs, sizeBytes, cgLimitBytes)

-----------------------------------------------------------------------------
(* Memory reading.  A /proc text is a sequence of lines; a line is a record *)
(* [key, val]: the text before the colon and the token after it.           *)

Line(key, val) == [key |-> key, val |-> val]

\* parseKeyKB(text, key): the number on the first line "key:  <digits> kB",
\* 0 when text is null or empty or has no such line
parseKeyKB(text, key) ==
    LET hits == IF Truthy(text)
                THEN {j \in 1..Len(text.s) :
                        /\ text.s[j].key = key
                        /\ text.s[j].val # <<>>
                        /\ AllDigits(text.s[j].val)}
                ELSE {}
    IN  IF hits = {} THEN Num(0)
        ELSE StringToNumber(text.s[CHOOSE j \in hits : \A l \in hits : j <= l].val)

\* the loop of readMem over the lines of smaps: the running sum for `key`
RECURSIVE SumLines(_, _)
SumLines(lines, key) ==
    IF lines = <<>> THEN Num(0)
    ELSE LET last == lines[Len(lines)]
             rest == SumLines(SubSeq(lines, 1, Len(lines) - 1), key)
         IN  IF last.key = key
             THEN Add(rest, ParseInt(IF last.val # <<>> THEN last.val ELSE <<"0">>))
             ELSE rest

\* Math.round(process.memoryUsage().rss / 1024)
RuntimeRssKB == Num((2 * procfs.runtimeRss + 1024) \div 2048)

\* a reader that takes the first record of smaps instead of summing them all
readMemFirstRecord ==
    LET r == rd(procfs.smapsRollup)
        s == rd(procfs.smaps)
        status == rd(procfs.status)
        meminfo == rd(procfs.meminfo)
    IN  IF Truthy(r)
        THEN [rssKB |-> parseKeyKB(r, "Rss"),
              anonHugeKB |-> parseKeyKB(r, "AnonHugePages")]
        ELSE IF Truthy(s)
        THEN [rssKB |-> parseKeyKB(s, "Rss"),
              anonHugeKB |-> parseKeyKB(s, "AnonHugePages")]
        ELSE [rssKB |-> IF Truthy(status) THEN parseKeyKB(status, "VmRSS")
                        ELSE RuntimeRssKB,
              anonHugeKB |-> IF Truthy(meminfo)
                             THEN parseKeyKB(meminfo, "AnonHugePages")
                             ELSE Num(0)]

readMem ==
    LET r == rd(procfs.smapsRollup)
        s == rd(procfs.smaps)
        status == rd(procfs.status)
        meminfo == rd(procfs.meminfo)
    IN  IF Truthy(r)
        THEN [rssKB |-> parseKeyKB(r, "Rss"),
              anonHugeKB |-> parseKeyKB(r, "AnonHugePages")]
        ELSE IF Truthy(s)
        THEN [rssKB |-> SumLines(s.s, "Rss"),
              anonHugeKB |-> SumLines(s.s, "AnonHugePages")]
        ELSE [rssKB |-> IF Truthy(status) THEN parseKeyKB(status, "VmRSS")
                        ELSE RuntimeRssKB,
              anonHugeKB |-> IF Truthy(meminfo)
                             THEN parseKeyKB(meminfo, "AnonHugePages")
                             ELSE Num(0)]

-----------------------------------------------------------------------------
(* Inputs: the environments, cgroup files and /proc files the runs start in *)

UnsetEnv ==
    [STICKY_PRESET |-> NULL, ALLOC_OBJECTS |-> NULL, ALLOC_SIZE_MB |-> NULL,
     HOLD_MS |-> NULL, TARGET_UTIL |-> NULL]

\* limits and usages of a small container: 4 MiB, 8 MiB, 20 MiB, 1 MiB, 2 MiB
Txt4M == <<"4", "1", "9", "4", "3", "0", "4", "\n">>
Txt8M == <<"8", "3", "8", "8", "6", "0", "8", "\n">>
Txt20M == <<"2", "0", "9", "7", "1", "5", "2", "0", "\n">>
Txt1M == <<"1", "0", "4", "8", "5", "7", "6", "\n">>
Txt2M == <<"2", "0", "9", "7", "1", "5", "2", "\n">>
TxtMax == <<"m", "a", "x", "\n">>
TxtZero == <<"0", "\n">>
TxtJunk == <<"x">>

NoCgroup == [cg2Max |-> NoFile, cg2Cur |-> NoFile, cg1Max |-> NoFile, cg1Cur |-> NoFile]

\* every combination of the v2 and v1 files, present or absent
CgroupFiles ==
    [cg2Max : {NoFile, File(TxtMax), File(Txt4M), File(Txt20M), File(TxtZero)},
     cg2Cur : {NoFile, File(TxtZero), File(Txt1M), File(Txt4M)},
     cg1Max : {NoFile, File(Txt8M), File(TxtJunk)},
     cg1Cur : {NoFile, File(Txt2M)}]

\* environments of the planner: unset, well-formed and malformed values
PlanEnvs ==
    [STICKY_PRESET : {NULL, Str(<<"1">>)},
     ALLOC_OBJECTS : {NULL, Str(<<"2">>), Str(<<"0">>), Str(<<"a", "b", "c">>),
                      Str(<<"-", "1">>), Str(<<"2", ".", "5">>), Str(<<>>)},
     ALLOC_SIZE_MB : {NULL, Str(<<"1">>), Str(<<"1", ".", "5">>), Str(<<"x">>),
                      Str(<<"-", "1">>)},
     HOLD_MS : {NULL},
     TARGET_UTIL : {NULL, Str(<<"0", ".", "0", "5">>), Str(<<"0", ".", "5">>),
                    Str(<<"0", ".", "9", "9">>), Str(<<"x">>), Str(<<"0">>),
                    Str(<<>>)}]

\* environments of the wave runner
WaveEnvs ==
    [STICKY_PRESET : {NULL},
     ALLOC_OBJECTS : {NULL, Str(<<"2">>), Str(<<"a", "b", "c">>),
                      Str(<<"2", ".", "5">>), Str(<<"-", "1">>)},
     ALLOC_SIZE_MB : {NULL, Str(<<"x">>)},
     HOLD_MS : {NULL, Str(<<"x">>)},
     TARGET_UTIL : {NULL, Str(<<"x">>)}]

WaveCgroups ==
    {NoCgroup,
     [NoCgroup EXCEPT !.cg2Max = File(Txt20M), !.cg2Cur = File(TxtZero)]}

\* /proc texts
Rollup1 == <<Line("hdr", <<>>), Line("Rss", <<"9", "0">>), Line("Pss", <<"8", "0">>),
             Line("AnonHugePages", <<"4">>)>>
Rollup2 == <<Line("hdr", <<>>), Line("Rss", <<"7">>), Line("Rss", <<"5">>)>>
Smaps1 == <<Line("hdr", <<>>), Line("Size", <<"6", "4">>), Line("Rss", <<"5", "0">>),
            Line("AnonHugePages", <<"0">>),
            Line("hdr", <<>>), Line("Rss", <<"4", "0">>),
            Line("AnonHugePages", <<"4">>), Line("VmFlags", <<"r", "d">>)>>
Smaps2 == <<Line("hdr", <<>>), Line("Rss", <<"3">>), Line("Rss", <<>>),
            Line("AnonHugePages", <<"2">>), Line("AnonHugePages", <<"2">>)>>
Smaps3 == <<Line("hdr", <<>>), Line("Pss", <<"1">>)>>
Status1 == <<Line("Name", <<"n", "o", "d", "e">>), Line("VmRSS", <<"8", "8">>)>>
Status2 == <<Line("Name", <<"n", "o", "d", "e">>)>>
Meminfo1 == <<Line("MemTotal", <<"9", "9", "9">>), Line("AnonHugePages", <<"6">>)>>

ProcFiles ==
    [smapsRollup : {NoFile, File(Rollup1), File(Rollup2)},
     smaps : {NoFile, File(Smaps1), File(Smaps2), File(Smaps3)},
     status : {NoFile, File(Status1), File(Status2)},
     meminfo : {NoFile, File(Meminfo1)},
     runtimeRss : {46137344, 46138000}]

NoProc ==
    [smapsRollup |-> NoFile, smaps |-> NoFile, status |-> NoFile,
     meminfo |-> NoFile, runtimeRss |-> 46137344]
WaveProcs == {NoProc, [NoProc EXCEPT !.smapsRollup = File(Rollup1)]}

-----------------------------------------------------------------------------
(* Bounds *)

MaxWaves == 2
MaxSignals == 2

-----------------------------------------------------------------------------
(* The program *)

Signals == {"SIGTERM", "SIGINT"}
\* the two handlers with their statuses exchanged
ExitStatusSwapped(sig) == IF sig = "SIGTERM" THEN 130 ELSE 143
\* the status each handler passes to process.exit
ExitStatus(sig) == IF sig = "SIGTERM" THEN 143 ELSE 130

\* the main function is suspended in an await: the event loop can run
\* signal handlers and timers
Idle == pc \in {"hold", "cooldown"}

\* new Array(n) throws a RangeError unless n is an integer in 0 .. 2^32 - 1
\* (every count the model reaches is far below the upper end)
ArrayLengthOk(n) == IsInteger(n) /\ n.v >= 0

\* Buffer.allocUnsafe(size) rejects a size that is not a number >= 0
BufferSizeOk(size) == IsNum(size) /\ size.v >= 0

\* the buffers a wave holds
Held(a) == Cardinality({j \in DOMAIN a : a[j] = "buf"})

\* a release loop that stops one slot early
ReleaseAllButLast(a, n) == [j \in DOMAIN a |-> IF Lt(Num(j), n) THEN "null" ELSE a[j]]
\* for (let i = 0; i < objects; i++) arr[i] = null
Release(a, n) == [j \in DOMAIN a |-> IF Lt(Num(j - 1), n) THEN "null" ELSE a[j]]

InitWith(envs, cgs, procs) ==
    /\ env \in envs
    /\ cgfs \in cgs
    /\ procfs \in procs
    /\ gcExposed \in BOOLEAN
    /\ pc = "boot"
    /\ w = 1
    /\ objects = Num(0)
    /\ arr = <<>>
    /\ i = 0
    /\ out = <<>>
    /\ pendingSig = <<>>
    /\ timers = <<>>
    /\ sigLog = <<>>
    /\ exitCode = -1
    /\ planned = Num(0)
    /\ mem = [rssKB |-> Num(0), anonHugeKB |-> Num(0)]

Init == InitWith(WaveEnvs, WaveCgroups, WaveProcs)

\* the main function up to the loop: banners and printUsage('START')
Boot ==
    /\ pc = "boot"
    /\ pc' = "loop"
    /\ out' = <<"START">>
    /\ mem' = readMem
    /\ UNCHANGED <<env, cgfs, procfs, gcExposed, w, objects, arr, i,
                   pendingSig, timers, sigLog, exitCode, planned>>

\* wave() from the planned count p to the allocation loop: the throttle
\* notice, new Array(objects), printUsage(BEFORE).  A RangeError of new Array
\* rejects wave() and the main function with it: the unhandled rejection
\* ends the process with status 1.
WaveEnter(p) ==
    /\ planned' = p
    /\ objects' = p
    /\ i' = 0
    /\ IF ArrayLengthOk(p)
       THEN /\ arr' = [j \in 1..(p.v \div 100) |-> "empty"]
            /\ out' = (IF Lt(p, OBJ) THEN <<"throttle">> ELSE <<>>)
                      \o <<"BEFORE allocate">>
            /\ mem' = readMem
            /\ pc' = "alloc"
            /\ exitCode' = exitCode
       ELSE /\ arr' = <<>>
            /\ out' = IF Lt(p, OBJ) THEN <<"throttle">> ELSE <<>>
            /\ mem' = mem
            /\ pc' = "dead"
            /\ exitCode' = 1

\* one iteration of while (true): the wave banner, w++, and wave({}) up to
\* its allocation loop
WaveBegin ==
    /\ pc = "loop"
    /\ w <= MaxWaves
    /\ w' = w + 1
    /\ WaveEnter(planObjects(OBJ, SIZE_BYTES))
    /\ UNCHANGED <<env, cgfs, procfs, gcExposed, pendingSig, timers, sigLog>>

\* arr[i] = Buffer.allocUnsafe(sizeBytes); touch(arr[i])
AllocOk ==
    /\ pc = "alloc"
    /\ Lt(Num(i), objects)
    /\ BufferSizeOk(SIZE_BYTES)
    /\ arr' = [arr EXCEPT ![i + 1] = "buf"]
    /\ i' = i + 1
    /\ UNCHANGED <<env, cgfs, procfs, gcExposed, pc, w, objects, out,
                   pendingSig, timers, sigLog, exitCode, planned, mem>>

\* the allocation loop without its try/catch: the throw rejects wave()
AllocFailUncaught ==
    /\ pc = "alloc"
    /\ Lt(Num(i), objects)
    /\ pc' = "dead"
    /\ exitCode' = 1
    /\ UNCHANGED <<env, cgfs, procfs, gcExposed, w, objects, arr, i, out,
                   pendingSig, timers, sigLog, planned, mem>>

\* Buffer.allocUnsafe throws (invalid size, or no memory): caught and logged
AllocFail ==
    /\ pc = "alloc"
    /\ Lt(Num(i), objects)
    /\ out' = Append(out, "ERROR")
    /\ pc' = "hold"
    /\ UNCHANGED <<env, cgfs, procfs, gcExposed, w, objects, arr, i,
                   pendingSig, timers, sigLog, exitCode, planned, mem>>

\* the loop ran to its end: printUsage('AFTER allocate'), then await sleep
AllocDone ==
    /\ pc = "alloc"
    /\ ~Lt(Num(i), objects)
    /\ out' = Append(out, "AFTER allocate")
    /\ mem' = readMem
    /\ pc' = "hold"
    /\ UNCHANGED <<env, cgfs, procfs, gcExposed, w, objects, arr, i,
                   pendingSig, timers, sigLog, exitCode, planned>>

\* sleep(holdMs) resolves (setTimeout takes any delay: a NaN or negative
\* HOLD is a delay of 1 ms, never a throw): release every slot, gc or the
\* warning, printUsage('AFTER free + GC'), then await sleep(1000)
HoldElapsed ==
    /\ pc = "hold"
    /\ arr' = Release(arr, objects)
    /\ out' = out \o (IF gcExposed THEN <<>> ELSE <<"WARN">>) \o <<"AFTER free">>
    /\ mem' = readMem
    /\ pc' = "cooldown"
    /\ UNCHANGED <<env, cgfs, procfs, gcExposed, w, objects, i,
                   pendingSig, timers, sigLog, exitCode, planned>>

\* sleep(1000) resolves: wave() returns to the driver loop
CooldownElapsed ==
    /\ pc = "cooldown"
    /\ pc' = "loop"
    /\ UNCHANGED <<env, cgfs, procfs, gcExposed, w, objects, arr, i, out,
                   pendingSig, timers, sigLog, exitCode, planned, mem>>

\* the operating system delivers a signal to the running process
SignalArrives(sig) ==
    /\ pc \notin {"dead", "exited"}
    /\ Len(sigLog) + Len(pendingSig) < MaxSignals
    /\ pendingSig' = Append(pendingSig, sig)
    /\ UNCHANGED <<env, cgfs, procfs, gcExposed, pc, w, objects, arr, i, out,
                   timers, sigLog, exitCode, planned, mem>>

\* process.on(sig): log the signal, setTimeout(() => process.exit(status), 10)
HandleSignal ==
    /\ Idle
    /\ pendingSig # <<>>
    /\ sigLog' = Append(sigLog, Head(pendingSig))
    /\ timers' = Append(timers, ExitStatus(Head(pendingSig)))
    /\ pendingSig' = Tail(pendingSig)
    /\ UNCHANGED <<env, cgfs, procfs, gcExposed, pc, w, objects, arr, i, out,
                   exitCode, planned, mem>>

\* the earliest exit timer fires: process.exit(status)
ExitTimer ==
    /\ Idle
    /\ timers # <<>>
    /\ exitCode' = Head(timers)
    /\ pc' = "exited"
    /\ UNCHANGED <<env, cgfs, procfs, gcExposed, w, objects, arr, i, out,
                   pendingSig, timers, sigLog, planned, mem>>

Next ==
    \/ Boot
    \/ WaveBegin
    \/ AllocOk
    \/ AllocFail
    \/ AllocDone
    \/ HoldElapsed
    \/ CooldownElapsed
    \/ \E sig \in Signals : SignalArrives(sig)
    \/ HandleSignal
    \/ ExitTimer

Spec == Init /\ [][Next]_vars

-----------------------------------------------------------------------------
(* The planner applied to every environment and cgroup state *)

PlanInit == InitWith(PlanEnvs, CgroupFiles, {NoProc})

PlanCall ==
    /\ pc = "boot"
    /\ planned' = planObjects(OBJ, SIZE_BYTES)
    /\ pc' = "planned"
    /\ UNCHANGED <<env, cgfs, procfs, gcExposed, w, objects, arr, i, out,
                   pendingSig, timers, sigLog, exitCode, mem>>

PlanNext == PlanCall

SpecPlan == PlanInit /\ [][PlanNext]_vars

-----------------------------------------------------------------------------
(* The metrics reader applied to every combination of /proc files *)

MemInit == InitWith({UnsetEnv}, {NoCgroup}, ProcFiles)

ReadMemCall ==
    /\ pc = "boot"
    /\ mem' = readMem
    /\ pc' = "read"
    /\ UNCHANGED <<env, cgfs, procfs, gcExposed, w, objects, arr, i, out,
                   pendingSig, timers, sigLog, exitCode, planned>>

MemNext == ReadMemCall

SpecMem == MemInit /\ [][MemNext]_vars

-----------------------------------------------------------------------------
(* Properties of the planner, checked under SpecPlan *)

\* the limit is a finite positive number: the planner throttles
LimitApplies == IsFinite(cgLimitBytes) /\ cgLimitBytes.v > 0
\* requested count, buffer size and target utilisation are all numbers
AllNumeric == IsNum(OBJ) /\ IsNum(SIZE_BYTES) /\ IsNum(TARGET_UTIL)
\* targetUtilization * L in hundredths of a byte, by integer arithmetic
\* (L is a whole number of bytes)
TargetHun == TARGET_UTIL.v * (cgLimitBytes.v \div 100)
\* max(0, targetUtilization * L - C) in hundredths of a byte
HeadHun ==
    IF TargetHun - cgCurrentBytes.v > 0 THEN TargetHun - cgCurrentBytes.v ELSE 0
\* floor(headroom / bufferSizeBytes)
WholeBuffers == HeadHun \div SIZE_BYTES.v
\* min(requestedCount, max(1, floor(headroom / bufferSizeBytes))), in hundredths
ExpectedPlanHun ==
    IF OBJ.v <= (IF WholeBuffers >= 1 THEN WholeBuffers ELSE 1) * 100
    THEN OBJ.v
    ELSE (IF WholeBuffers >= 1 THEN WholeBuffers ELSE 1) * 100

\* C1: planObjects returns the requested count unchanged when the limit is
\* unlimited or non-positive, and min(requested, max(1, floor(max(0,
\* util*L - C) / size))) for a finite positive limit L and usage C; where the
\* requested count, the size or the utilisation is NaN, so is that formula.
PlanMatchesFormula ==
    pc = "planned" =>
        /\ ~LimitApplies => planned = OBJ
        /\ (LimitApplies /\ AllNumeric) => planned = Hun(ExpectedPlanHun)
        /\ (LimitApplies /\ ~AllNumeric) => IsNaN(planned)

\* C1 witness: a finite limit throttles the request to a count above one
PlanThrottledAboveOne ==
    /\ pc = "planned"
    /\ LimitApplies
    /\ AllNumeric
    /\ planned # OBJ
    /\ planned.v > 100

\* C2 as stated: for every requested count the planner returns at least 1
PlannedAtLeastOne ==
    (pc = "planned" /\ AllNumeric) => (IsNum(planned) /\ planned.v >= 100)

\* C2 amended: for a requested count of at least 1 the planner never returns
\* a number below 1, and returns a number whenever size and utilisation are
\* numbers; a requested count below 1 is returned as it is.
ThrottleNotBelowOne ==
    pc = "planned" =>
        /\ (IsNum(OBJ) /\ OBJ.v >= 100 /\ IsNum(planned)) => planned.v >= 100
        /\ (AllNumeric /\ OBJ.v >= 100) => IsNum(planned)
        /\ (AllNumeric /\ OBJ.v < 100) => planned = OBJ

\* C2 witness: headroom is 0 (usage at or above the target) and the planner
\* still returns 1 of the several buffers requested
PlanOneAtZeroHeadroom ==
    /\ pc = "planned"
    /\ LimitApplies
    /\ AllNumeric
    /\ HeadHun = 0
    /\ OBJ.v > 100
    /\ planned = Num(1)

TargetUtilInRange ==
    IsNum(TARGET_UTIL) /\ TARGET_UTIL.v >= 10 /\ TARGET_UTIL.v <= 95

-----------------------------------------------------------------------------
(* Properties of the wave runner, the driver loop and the signal handlers, *)
(* checked under Spec                                                      *)

Range(s) == {s[j] : j \in DOMAIN s}
IsSnapshot(tag) == tag \in {"BEFORE allocate", "AFTER allocate", "AFTER free"}
\* the printUsage lines of the current wave, in the order printed
Snapshots == SelectSeq(out, IsSnapshot)
\* the allocation loop of the current wave threw
AllocFailed == "ERROR" \in Range(out)

\* C5 as stated: no configuration makes a wave throw, so the process never
\* dies from an uncaught exception
NoUncaughtException == pc # "dead"

\* C6: an allocation failure at any index is caught and logged and is not
\* fatal: the allocation phase always ends in the hold, the buffers
\* allocated before the failure are still held there, the step after the
\* hold releases them all and prints AFTER free, and the wave returns to
\* the driver loop, whose next step starts a wave (only a signal's exit
\* timer can end the process in between).
AllocFailureCaught ==
    /\ [][pc = "alloc" => pc' \in {"alloc", "hold"}]_vars
    /\ [][(pc = "alloc" /\ pc' = "hold" /\ i < Len(arr)) =>
              (out' = Append(out, "ERROR") /\ arr' = arr /\ exitCode' = -1)]_vars
    /\ []((pc = "hold" /\ AllocFailed) =>
              /\ Held(arr) = i
              /\ \A j \in DOMAIN arr : arr[j] = (IF j <= i THEN "buf" ELSE "empty"))
    /\ [][(pc = "hold" /\ AllocFailed) => pc' \in {"hold", "cooldown", "exited"}]_vars
    /\ []((pc = "cooldown" /\ AllocFailed) =>
              /\ Held(arr) = 0
              /\ out[Len(out)] = "AFTER free")
    /\ [][(pc = "cooldown" /\ AllocFailed) => pc' \in {"cooldown", "loop", "exited"}]_vars
    /\ [][(pc = "loop" /\ AllocFailed) => pc' \in {"loop", "alloc"}]_vars
    /\ [](AllocFailed => exitCode \in {-1, 130, 143})

\* C6 witness: the second wave has started after a wave whose allocation
\* failed at an index above 0 and which then released everything
NextWaveAfterFailure ==
    /\ pc = "loop"
    /\ AllocFailed
    /\ i >= 1
    /\ w = 2
    /\ Held(arr) = 0

\* C7 as stated: at its end every wave has printed BEFORE allocate, AFTER
\* allocate and AFTER free, once each and in that order
ThreeSnapshotsInOrder ==
    pc = "cooldown" =>
        Snapshots = <<"BEFORE allocate", "AFTER allocate", "AFTER free">>

\* the signals received so far, handled or not
Received == Range(sigLog) \cup Range(pendingSig)

\* C8 as stated: once SIGTERM is received, in any interleaving, the process
\* exits with 143
TermExitsWith143 ==
    (pc = "exited" /\ "SIGTERM" \in Received) => exitCode = 143

\* C8 amended: every handled signal schedules one exit, 143 for SIGTERM and
\* 130 for SIGINT, in the order handled; when the process exits through
\* process.exit its status is that of the first signal handled; without any
\* signal no exit is scheduled and the process never exits through
\* process.exit.
ExitStatusOfFirstSignal ==
    /\ Len(timers) = Len(sigLog)
    /\ \A j \in DOMAIN timers :
          timers[j] = (IF sigLog[j] = "SIGTERM" THEN 143 ELSE 130)
    /\ pc = "exited" =>
          /\ sigLog # <<>>
          /\ exitCode = (IF sigLog[1] = "SIGTERM" THEN 143 ELSE 130)
    /\ Received = {} => (pc # "exited" /\ timers = <<>>)
    /\ exitCode \in {130, 143} => pc = "exited"

\* C8 witness: SIGINT then SIGTERM are both handled before the first exit
\* timer fires, and the process exits with 130
ExitAfterBothSignals ==
    /\ pc = "exited"
    /\ sigLog = <<"SIGINT", "SIGTERM">>
    /\ exitCode = 130

\* C10: no buffer is held when a wave starts, after its free step or between
\* waves; during a wave the buffers held never exceed the planned count; the
\* set does not change during the hold.
NoBufferAcrossWaves ==
    /\ [](pc \in {"boot", "loop", "cooldown", "dead"} => Held(arr) = 0)
    /\ [](pc \in {"alloc", "hold", "cooldown"} =>
              /\ Len(arr) * 100 = objects.v
              /\ objects = planned
              /\ Held(arr) <= Len(arr))
    /\ [][(pc # "alloc" /\ pc' = "alloc") => Held(arr') = 0]_vars
    /\ [][(pc = "hold" /\ pc' = "hold") => arr' = arr]_vars

\* C10 witness: the second wave has freed the two or more buffers it
\* allocated
SecondWaveFreed ==
    /\ pc = "cooldown"
    /\ w = 3
    /\ i >= 2
    /\ Held(arr) = 0

-----------------------------------------------------------------------------
(* Properties of the metrics reader, checked under SpecMem *)

\* the number on the first line of `lines` that reads "key: <digits> kB"
RECURSIVE FirstOf(_, _)
FirstOf(lines, key) ==
    IF lines = <<>> THEN 0
    ELSE IF Head(lines).key = key /\ Head(lines).val # <<>> /\ AllDigits(Head(lines).val)
         THEN DigitsVal(Head(lines).val)
         ELSE FirstOf(Tail(lines), key)
\* the sum of the numbers of all the `key` lines
RECURSIVE TotalOf(_, _)
TotalOf(lines, key) ==
    IF lines = <<>> THEN 0
    ELSE (IF Head(lines).key = key THEN DigitsVal(Head(lines).val) ELSE 0)
         + TotalOf(Tail(lines), key)

\* C9: readMem always returns two numbers, taken from the first readable
\* tier: the rollup file's own Rss and AnonHugePages; else the sums over all
\* records of smaps; else VmRSS of the status file (the runtime's rss in kB,
\* rounded, when it is unreadable) and AnonHugePages of meminfo (0 when it is
\* unreadable).
ReadMemFallbackOrder ==
    pc = "read" =>
        /\ IsNum(mem.rssKB) /\ IsNum(mem.anonHugeKB)
        /\ procfs.smapsRollup.readable =>
              /\ mem.rssKB = Num(FirstOf(procfs.smapsRollup.text, "Rss"))
              /\ mem.anonHugeKB = Num(FirstOf(procfs.smapsRollup.text, "AnonHugePages"))
        /\ (~procfs.smapsRollup.readable /\ procfs.smaps.readable) =>
              /\ mem.rssKB = Num(TotalOf(procfs.smaps.text, "Rss"))
              /\ mem.anonHugeKB = Num(TotalOf(procfs.smaps.text, "AnonHugePages"))
        /\ (~procfs.smapsRollup.readable /\ ~procfs.smaps.readable) =>
              /\ procfs.status.readable =>
                    mem.rssKB = Num(FirstOf(procfs.status.text, "VmRSS"))
              /\ ~procfs.status.readable =>
                    /\ mem.rssKB.v % 100 = 0
                    /\ 2 * (1024 * (mem.rssKB.v \div 100) - procfs.runtimeRss) <= 1024
                    /\ 2 * (procfs.runtimeRss - 1024 * (mem.rssKB.v \div 100)) <= 1024
              /\ procfs.meminfo.readable =>
                    mem.anonHugeKB = Num(FirstOf(procfs.meminfo.text, "AnonHugePages"))
              /\ ~procfs.meminfo.readable => mem.anonHugeKB = Num(0)

\* C9 witness: only the per-mapping file is readable and the result is the
\* sum over its two records
SmapsSummed ==
    /\ pc = "read"
    /\ ~procfs.smapsRollup.readable
    /\ procfs.smaps = File(Smaps1)
    /\ mem = [rssKB |-> Num(90), anonHugeKB |-> Num(4)]

====
